---- MODULE Spec2Model ----
(***************************************************************************)
(* A model of the sd35l_trainer command-line client: the dataset archive   *)
(* inspection (config.py), the job lifecycle driven by TrainingManager     *)
(* (training.py) and the train / cancel / download commands (cli.py).      *)
(*                                                                         *)
(* Strings of the program are sequences of one-character strings, so that  *)
(* splitext, startswith, endswith, split and the substring test are        *)
(* computed as the code computes them.                                     *)
(***************************************************************************)
EXTENDS Integers, Sequences, FiniteSets, TLC

(***************************************************************************)
(* Bounds of the model.                                                    *)
(***************************************************************************)
\* the largest number of entries of a dataset archive
MaxEntries == 7
\* the largest number of status fetches one monitor_training call makes
MaxPolls == 4

(***************************************************************************)
(* String helpers (Python str methods used by the code).                   *)
(***************************************************************************)
StartsWith(s, p) ==
    /\ Len(s) >= Len(p)
    /\ SubSeq(s, 1, Len(p)) = p

EndsWith(s, p) ==
    /\ Len(s) >= Len(p)
    /\ SubSeq(s, Len(s) - Len(p) + 1, Len(s)) = p

\* "sub in s"
Contains(s, sub) ==
    \E i \in 1..(Len(s) - Len(sub) + 1) : SubSeq(s, i, i + Len(sub) - 1) = sub

\* s.rfind(c): the last index of character c, 0 when absent (Python: -1)
RFind(s, c) ==
    LET idx == {i \in 1..Len(s) : s[i] = c}
    IN  IF idx = {} THEN 0 ELSE CHOOSE i \in idx : \A j \in idx : j <= i

\* str.lower() on the letters the model uses
LowerChar(c) ==
    CASE c = "A" -> "a"
      [] c = "C" -> "c"
      [] c = "D" -> "d"
      [] c = "G" -> "g"
      [] c = "J" -> "j"
      [] c = "M" -> "m"
      [] c = "O" -> "o"
      [] c = "P" -> "p"
      [] c = "Q" -> "q"
      [] c = "S" -> "s"
      [] c = "T" -> "t"
      [] c = "X" -> "x"
      [] c = "Z" -> "z"
      [] OTHER -> c

Lower(s) == [i \in 1..Len(s) |-> LowerChar(s[i])]

\* os.path.splitext: the extension starts at the last dot of the last path
\* component, unless that component has only leading dots before it
SplitExt(p) ==
    LET sepIndex == RFind(p, "/")
        dotIndex == RFind(p, ".")
        hasExt   == /\ dotIndex > sepIndex
                    /\ \E i \in (sepIndex + 1)..(dotIndex - 1) : p[i] # "."
    IN  IF hasExt
        THEN <<SubSeq(p, 1, dotIndex - 1), SubSeq(p, dotIndex, Len(p))>>
        ELSE <<p, <<>>>>

(***************************************************************************)
(* validate_dataset_structure: the inspection of an archive listing.       *)
(***************************************************************************)
ExtTxt  == <<".", "t", "x", "t">>

image_extensions ==
    {
      <<".", "j", "p", "g">>,  \* .jpg
      <<".", "j", "p", "e", "g">>,  \* .jpeg
      <<".", "p", "n", "g">>,  \* .png
      <<".", "b", "m", "p">>,  \* .bmp
      <<".", "t", "i", "f", "f">>,  \* .tiff
      <<".", "t", "i", "f">>,  \* .tif
      <<".", "w", "e", "b", "p">>   \* .webp
    }

MacOsxPrefix == <<"_", "_", "M", "A", "C", "O", "S", "X">>

\* the filter of directories and system files
IsValidFile(f) ==
    /\ ~EndsWith(f, <<"/">>)
    /\ ~StartsWith(f, <<".">>)
    /\ ~StartsWith(f, MacOsxPrefix)

FilterFiles(file_list) == {f \in file_list : IsValidFile(f)}

base_name(file) == SplitExt(file)[1]

ext(file) == SplitExt(Lower(file))[2]

IsImageFile(file) == ext(file) \in image_extensions

IsTextFile(file) == ext(file) \notin image_extensions /\ ext(file) = ExtTxt

ImageBases(files) == {base_name(f) : f \in {g \in files : IsImageFile(g)}}

TextBases(files) == {base_name(f) : f \in {g \in files : IsTextFile(g)}}

OtherFiles(files) == {f \in files : ~IsImageFile(f) /\ ~IsTextFile(f)}

\* the number of names the unpaired-images message lists
ListedNames == 5

\* mutant: the slice is one short
ListedChoicesOneShort(unpaired) ==
    IF Cardinality(unpaired) <= ListedNames - 1
    THEN {unpaired}
    ELSE {s \in SUBSET unpaired : Cardinality(s) = ListedNames - 1}

\* list(unpaired_images)[:5]: the iteration order of a set is arbitrary, so
\* any ListedNames-element subset may be the one listed
ListedChoices(unpaired) ==
    IF Cardinality(unpaired) <= ListedNames
    THEN {unpaired}
    ELSE {s \in SUBSET unpaired : Cardinality(s) = ListedNames}

NoReport == [kind |-> "none", paired |-> 0, names |-> {}, more |-> 0,
             warned |-> {}, others |-> 0]

\* mutant: the check for caption files is missing
FirstFailureNoCaptionCheck(files, image_files, text_files, unpaired_images) ==
    IF files = {} THEN "empty"
    ELSE IF image_files = {} THEN "no_images"
    ELSE IF unpaired_images # {} THEN "unpaired_images"
    ELSE "ok"

\* The checks of the inspection, in the order the code makes them: the
\* first that fails names the error, "ok" when none does.
FirstFailure(files, image_files, text_files, unpaired_images) ==
    IF files = {} THEN "empty"
    ELSE IF image_files = {} THEN "no_images"
    ELSE IF text_files = {} THEN "no_captions"
    ELSE IF unpaired_images # {} THEN "unpaired_images"
    ELSE "ok"

\* mutant: the captions are counted
PairedCountCaptions(image_bases, text_bases) == Cardinality(text_bases)

\* paired_count
PairedCount(image_bases, text_bases) == Cardinality(image_bases \cap text_bases)

\* The outcomes of inspecting an archive whose listing is file_list: a set,
\* because of the arbitrary choice of the listed names.  kind is "ok" or
\* the error raised inside the inspection.
InspectArchive(file_list) ==
    LET files           == FilterFiles(file_list)
        image_files     == {f \in files : IsImageFile(f)}
        text_files      == {f \in files : IsTextFile(f)}
        image_bases     == ImageBases(files)
        text_bases      == TextBases(files)
        unpaired_images == image_bases \ text_bases
        unpaired_texts  == text_bases \ image_bases
        kind            == FirstFailure(files, image_files, text_files, unpaired_images)
    IN  IF kind = "unpaired_images"
        THEN {[NoReport EXCEPT !.kind = kind,
                               !.names = listed,
                               !.more = Cardinality(unpaired_images)
                                          - Cardinality(listed)]
                 : listed \in ListedChoices(unpaired_images)}
        ELSE IF kind = "ok"
        THEN {[kind   |-> "ok",
               paired |-> PairedCount(image_bases, text_bases),
               names  |-> {},
               more   |-> 0,
               warned |-> unpaired_texts,
               others |-> Cardinality(OtherFiles(files))]}
        ELSE {[NoReport EXCEPT !.kind = kind]}

(***************************************************************************)
(* The commands and the remote job service.                                *)
(***************************************************************************)
VARIABLES
    \* the invocation: command, its flags and arguments; which run of the
    \* download command this is (1 or 2) and the path the first run returned
    cmd, dry_run, wait, dataset_url, training_id, run, firstPath,
    \* the sources of configuration values train was invoked with
    inv,
    \* control: position in the command, exit code (-1 while running), the
    \* handler that ended the command, whether KeyboardInterrupt was delivered
    pc, exitCode, handler, interrupted,
    \* the network calls and sleeps made so far, in order; console messages
    net, out,
    \* validate_dataset_structure: the listing of the archive the URL serves,
    \* its temporary file, the report of the inspection, what the function
    \* returned ("True") or the type of the exception it raised
    archive, tmpZip, report, structResult,
    \* what validate_dataset_url and create_config returned or raised; the
    \* TrainingConfig built (NoValues before)
    urlResult, configResult, training_config,
    \* the API token read from the environment
    apiToken,
    \* the remote job: status ("absent" before create), output location,
    \* destination and trigger word echoed in its input
    jobStatus, jobOutput, jobDest, jobTrigger,
    \* monitor_training: the statuses fetched, the value returned
    polls, final_status,
    \* cancel_training: the status fetched, the value returned
    cancelFetched, cancelResult,
    \* download_result: value returned, locals (renames counts the calls of
    \* rename on the weights file), temporary file
    dlResult, dlFetched, model_file_path, renames, tarMembers, caption_todo,
    caption_count, tmpTar,
    \* the output directory: directories present, files in its root, files
    \* in captions/, files in other subdirectories, the directory as it was
    \* when the command began
    fsDirs, fsRoot, fsCaptions, fsSub, fsBefore

invocation == <<cmd, dry_run, wait, dataset_url, training_id, run, firstPath, inv>>
control    == <<pc, exitCode, handler, interrupted>>
datasetVars == <<archive, tmpZip, report, structResult, urlResult, configResult,
                 training_config>>
jobVars    == <<jobStatus, jobOutput, jobDest, jobTrigger>>
monitorVars == <<polls, final_status>>
cancelVars == <<cancelFetched, cancelResult>>
dlVars     == <<dlResult, dlFetched, model_file_path, renames, tarMembers, caption_todo,
               caption_count, tmpTar>>
fsVars     == <<fsDirs, fsRoot, fsCaptions, fsSub, fsBefore>>

vars == <<invocation, control, net, out, datasetVars, apiToken, jobVars,
          monitorVars, cancelVars, dlVars, fsVars>>

\* the statuses of the remote service; "unknown" stands for any value the
\* client does not recognise
Statuses == {"starting", "processing", "succeeded", "failed", "canceled", "unknown"}

\* the statuses after which the service changes a job no more
ServiceTerminal == {"succeeded", "failed", "canceled"}

Count(tag) == Cardinality({i \in 1..Len(net) : net[i] = tag})

\* sys.exit(code) from handler h, or the normal end of the command (code 0)
Exit(code, h) ==
    /\ pc' = "done"
    /\ exitCode' = code
    /\ handler' = h

(***************************************************************************)
(* Inputs: small sets of the values an invocation and its environment can  *)
(* supply.                                                                 *)
(***************************************************************************)
UrlZip     == <<"h", "/", "d", ".", "z", "i", "p">>
UrlCaption == <<"h", "/", "c", "a", "p", "t", "i", "o", "n", ".", "z", "i", "p">>
DatasetUrls == {UrlZip, UrlCaption, <<"h", "/", "d", ".", "t", "a", "r">>}

\* REPLICATE_API_TOKEN: <<>> stands for unset or empty
Tokens ==
    {
      <<>>,  \* (empty)
      <<"r", "8", "_", "k">>,  \* r8_k
      <<"t", "o", "k">>   \* tok
    }

TrainingIds ==
    {
      <<>>,  \* (empty)
      <<"a", "b", "-", "1", "2", "_", "c", "d">>,  \* ab-12_cd
      <<"a", "b", "1", "2">>,  \* ab12
      <<"-", "-", "-", "-", "-", "-", "-", "-">>,  \* --------
      <<"a", "b", "1", "2", "!", "c", "d", "3">>   \* ab12!cd3
    }

\* the destination a job reports: owner/name as train submits it, and, for
\* a job the download command is pointed at, also one without and one with
\* two separators
DestAlice == <<"a", "l", "i", "c", "e", "/", "m", "y", "-", "m", "o", "d", "e", "l">>

Destinations ==
    {DestAlice,
     <<"s", "o", "l", "o">>,
     <<"a", "/", "b", "/", "m">>}

Triggers == {<<"Z", "X", "Q">>}

\* dataset archives the dataset URL may serve during train
A_jpg == <<"a", ".", "j", "p", "g">>
A_txt == <<"a", ".", "t", "x", "t">>
B_png == <<"b", ".", "p", "n", "g">>
B_txt == <<"b", ".", "t", "x", "t">>
TrainArchives ==
    { {A_jpg, A_txt, B_png, B_txt}, {A_jpg, A_txt, B_txt}, {A_jpg},
      {A_jpg, B_txt}, {B_txt}, {} }

\* the entries a dataset archive is made of when validate_dataset_structure
\* is examined on its own
EntryUniverse ==
    {A_jpg, A_txt, B_png, B_txt,
      <<"c", ".", "j", "p", "e", "g">>,  \* c.jpeg
      <<"d", ".", "b", "m", "p">>,  \* d.bmp
      <<"e", ".", "t", "i", "f">>,  \* e.tif
      <<"f", ".", "w", "e", "b", "p">>,  \* f.webp
      <<"g", ".", "P", "N", "G">>,  \* g.PNG
      <<"g", ".", "T", "X", "T">>,  \* g.TXT
      <<".", "h", ".", "t", "x", "t">>,  \* .h.txt
      <<"_", "_", "M", "A", "C", "O", "S", "X", "/", "a", ".", "t", "x", "t">>,  \* __MACOSX/a.txt
      <<"s", "/">>,  \* s/
      <<"s", "/", "a", ".", "j", "p", "g">>,  \* s/a.jpg
      <<"s", "/", ".", "x", ".", "j", "p", "g">>,  \* s/.x.jpg
      <<"n", ".", "m", "d">>   \* n.md
    }

ArchiveListings == {l \in SUBSET EntryUniverse : Cardinality(l) <= MaxEntries}

\* file names of result archives and of the output directory
ExtSafetensors == <<".", "s", "a", "f", "e", "t", "e", "n", "s", "o", "r", "s">>
F_named   == <<"m", "y", "-", "m", "o", "d", "e", "l", "_", "Z", "X", "Q", ".", "s", "a", "f", "e", "t", "e", "n", "s", "o", "r", "s">>
F_log     == <<"l", "o", "g", ".", "j", "s", "o", "n">>
F_env     == <<".", "e", "n", "v">>
F_config  == <<"c", "o", "n", "f", "i", "g", ".", "y", "a", "m", "l">>
F_notes   == <<"n", "o", "t", "e", "s", ".", "t", "x", "t">>
F_readme  == <<"r", ".", "m", "d">>

\* the members of the result archives the output location may serve
F_model == <<"m", "o", "d", "e", "l", ".", "s", "a", "f", "e", "t", "e", "n", "s", "o", "r", "s">>

TarArchives ==
    { {F_model, A_txt, B_txt, F_log},
      {A_txt, F_log},
      {F_model, A_txt,
       <<"e", "x", "t", "r", "a", ".", "s", "a", "f", "e", "t", "e", "n", "s", "o", "r", "s">>,
       <<"s", "u", "b", "/", "c", ".", "t", "x", "t">>},
      {A_txt,
       <<"s", "u", "b", "/", "m", "o", "d", "e", "l", ".", "s", "a", "f", "e", "t", "e", "n", "s", "o", "r", "s">>},
      {F_named} }

\* the output directory before the command: absent; present with files of
\* the user; left by an earlier download
OutputDirs ==
    { [dirs |-> {}, root |-> {}, captions |-> {}],
      [dirs |-> {"out"}, root |-> {F_env, F_notes, F_readme}, captions |-> {}],
      [dirs |-> {"out", "captions"}, root |-> {F_named}, captions |-> {A_txt}] }

EmptyDir == [dirs |-> {}, root |-> {}, captions |-> {}]

(***************************************************************************)
(* TrainingConfig and ConfigManager.create_config.  A source of values     *)
(* (preset, configuration file, command-line options) is a function from   *)
(* the names of the fields it sets to their values.  Learning rates are    *)
(* counted in units of 0.0001 and caption dropout rates in units of 0.01.  *)
(***************************************************************************)
\* str.strip() of blanks
RECURSIVE Strip(_)
Strip(s) ==
    IF s = <<>> THEN s
    ELSE IF Head(s) = " " THEN Strip(Tail(s))
    ELSE IF s[Len(s)] = " " THEN Strip(SubSeq(s, 1, Len(s) - 1))
    ELSE s

\* str.split(sep) for a one-character separator
RECURSIVE Split(_, _)
Split(s, sep) ==
    LET idx == {i \in 1..Len(s) : s[i] = sep}
    IN  IF idx = {} THEN <<s>>
        ELSE LET i == CHOOSE k \in idx : \A j \in idx : k <= j
             IN  <<SubSeq(s, 1, i - 1)>> \o Split(SubSeq(s, i + 1, Len(s)), sep)

Digits == <<"0", "1", "2", "3", "4", "5", "6", "7", "8", "9">>

IsDigit(c) == \E d \in 1..10 : Digits[d] = c

DigitValue(c) == (CHOOSE d \in 1..10 : Digits[d] = c) - 1

\* int(text) accepts decimal digits between optional blanks
IsIntText(text) ==
    /\ Strip(text) # <<>>
    /\ \A i \in 1..Len(Strip(text)) : IsDigit(Strip(text)[i])

RECURSIVE DigitsValue(_)
DigitsValue(ds) ==
    IF ds = <<>> THEN 0
    ELSE 10 * DigitsValue(SubSeq(ds, 1, Len(ds) - 1)) + DigitValue(ds[Len(ds)])

ParseInt(text) == DigitsValue(Strip(text))

\* validate_destination
ValidDestination(v) ==
    /\ Contains(v, <<"/">>)
    /\ Len(Split(v, "/")) = 2
    /\ \A i \in 1..Len(Split(v, "/")) : Strip(Split(v, "/")[i]) # <<>>

common_words ==
    {
      <<"d", "o", "g">>,  \* dog
      <<"c", "a", "t">>,  \* cat
      <<"p", "e", "r", "s", "o", "n">>,  \* person
      <<"m", "a", "n">>,  \* man
      <<"w", "o", "m", "a", "n">>,  \* woman
      <<"s", "t", "y", "l", "e">>,  \* style
      <<"a", "r", "t">>,  \* art
      <<"i", "m", "a", "g", "e">>,  \* image
      <<"p", "h", "o", "t", "o">>,  \* photo
      <<"p", "i", "c", "t", "u", "r", "e">>,  \* picture
      <<"f", "a", "c", "e">>,  \* face
      <<"p", "o", "r", "t", "r", "a", "i", "t">>,  \* portrait
      <<"c", "h", "a", "r", "a", "c", "t", "e", "r">>,  \* character
      <<"m", "o", "d", "e", "l">>   \* model
    }

\* validate_trigger_word
ValidTriggerWord(v) ==
    /\ Lower(v) \notin common_words
    /\ Len(Strip(v)) >= 2

\* validate_optimizer
ValidOptimizer(v) == v \in {"prodigy", "adamw8bit"}

\* Field(gt=0) and validate_learning_rate, optimizer being the validated
\* optimizer of the values
ValidLearningRate(v, optimizer) ==
    /\ v > 0
    /\ ~(optimizer = "prodigy" /\ (v < 1000 \/ v > 100000))
    /\ ~(optimizer = "adamw8bit" /\ (v < 1 \/ v > 100))

\* validate_resolution
ValidResolution(v) ==
    LET parts == Split(v, ",")
    IN  /\ Len(parts) = 2
        /\ IsIntText(parts[1])
        /\ IsIntText(parts[2])
        /\ ~(\/ ParseInt(parts[1]) < 512
             \/ ParseInt(parts[2]) < 512
             \/ ParseInt(parts[1]) > 2048
             \/ ParseInt(parts[2]) > 2048)

Res768x1024 == <<"7", "6", "8", ",", "1", "0", "2", "4">>

Res512x768  == <<"5", "1", "2", ",", "7", "6", "8">>

\* the defaults of the fields of TrainingConfig
FieldDefaults ==
    [steps |-> 1500, lora_rank |-> 16, optimizer |-> "prodigy", batch_size |-> 4,
     resolution |-> Res768x1024, learning_rate |-> 10000,
     wandb_save_interval |-> 100, wandb_sample_interval |-> 100,
     caption_dropout_rate |-> 5]

\* ConfigManager.PRESETS; NoValues is a source that sets nothing
NoValues == <<>>

PRESETS ==
    [none        |-> NoValues,
     beginner    |-> [optimizer |-> "prodigy", learning_rate |-> 10000, steps |-> 1500,
                      batch_size |-> 1, resolution |-> Res768x1024, lora_rank |-> 16],
     experienced |-> [optimizer |-> "prodigy", learning_rate |-> 10000, steps |-> 1500,
                      batch_size |-> 4, resolution |-> Res768x1024, lora_rank |-> 16],
     fast        |-> [optimizer |-> "adamw8bit", learning_rate |-> 4, steps |-> 1000,
                      batch_size |-> 4, resolution |-> Res512x768, lora_rank |-> 16]]

\* dict.update: the later source overrides the earlier
Update(earlier, later) ==
    [k \in DOMAIN earlier \cup DOMAIN later |->
        IF k \in DOMAIN later THEN later[k] ELSE earlier[k]]

\* The value of an option of train that was not given; an option given
\* with the value v carries {v}.
None == {}

\* {k: v for k, v in cli_args.items() if v is not None}
NotNone(args) ==
    [k \in {j \in DOMAIN args : args[j] # None} |-> CHOOSE v \in args[k] : TRUE]

\* mutant: the preset and the file are applied after the CLI arguments
config_data_cli_first(preset, file_data, cli_args) ==
    Update(Update(NotNone(cli_args), PRESETS[preset]), file_data)

\* config_data of create_config: the preset, then the file, then the CLI
\* arguments that are not None
config_data(preset, file_data, cli_args) ==
    Update(Update(PRESETS[preset], file_data), NotNone(cli_args))

\* Whether TrainingConfig(**data) validates.  A validator and the bounds of
\* a Field apply to a value that is supplied, never to a default; the
\* learning rate is checked against the optimizer of the values, supplied
\* or default.
Validates(data) ==
    LET has(k) == k \in DOMAIN data
        optimizer == IF has("optimizer") THEN data.optimizer ELSE FieldDefaults.optimizer
    IN  /\ has("destination") /\ ValidDestination(data.destination)
        /\ has("trigger_word") /\ ValidTriggerWord(data.trigger_word)
        /\ has("steps") => (data.steps >= 1000 /\ data.steps <= 2000)
        /\ has("lora_rank") => (data.lora_rank >= 4 /\ data.lora_rank <= 128)
        /\ has("optimizer") => ValidOptimizer(data.optimizer)
        /\ has("batch_size") => (data.batch_size >= 1 /\ data.batch_size <= 8)
        /\ has("resolution") => ValidResolution(data.resolution)
        /\ has("learning_rate") => ValidLearningRate(data.learning_rate, optimizer)
        /\ has("wandb_save_interval") => data.wandb_save_interval >= 10
        /\ has("wandb_sample_interval") => data.wandb_sample_interval >= 10
        /\ has("caption_dropout_rate") =>
              (data.caption_dropout_rate >= 0 /\ data.caption_dropout_rate <= 100)

\* The TrainingConfig built from data that validates: the values supplied,
\* the trigger word stripped, and the defaults of the other fields.
BuiltConfig(data) ==
    Update(FieldDefaults, [data EXCEPT !.trigger_word = Strip(@)])

\* the values a configuration file may set
FileConfigs ==
    { NoValues,
      [steps |-> 500],
      [steps |-> 2000, lora_rank |-> 256],
      [batch_size |-> 9],
      [optimizer |-> "sgd"],
      [optimizer |-> "adamw8bit"],
      [optimizer |-> "adamw8bit", learning_rate |-> 4],
      [learning_rate |-> 0],
      [resolution |-> <<"4", "0", "0", ",", "1", "0", "2", "4">>],
      [resolution |-> <<"7", "6", "8">>],
      [wandb_save_interval |-> 5],
      [caption_dropout_rate |-> 150],
      [wandb_sample_interval |-> 10, caption_dropout_rate |-> 100,
       resolution |-> <<"2", "0", "4", "8", ",", " ", "5", "1", "2">>] }

\* the options of train beside the required ones; click has checked the
\* ranges of steps, batch size and LoRA rank and the choice of optimizer
CliOptions ==
    { NoValues,
      [optimizer |-> "adamw8bit"],
      [optimizer |-> "prodigy"],
      [optimizer |-> "adamw8bit", learning_rate |-> 100],
      [learning_rate |-> 4],
      [learning_rate |-> 10000],
      [learning_rate |-> 200000],
      [steps |-> 1000],
      [batch_size |-> 8, lora_rank |-> 4],
      [resolution |-> Res512x768],
      [resolution |-> <<"7", "6", "8", ",", "x">>] }

\* --destination and --trigger-word
CliDestinations ==
    {DestAlice,
     <<"s", "o", "l", "o">>,
     <<"a", "/", "b", "/", "m">>,
     <<"/", "m">>,
     <<"a", "/", " ">>}

CliTriggerWords ==
    {<<"Z", "X", "Q">>,
     <<" ", "Z", "X", "Q", " ">>,
     <<"x">>,
     <<"D", "o", "g">>,
     <<" ", "c", "a", "t">>}

\* the keys of cli_args that name a field with a bound or a validator
CliFields ==
    {"destination", "trigger_word", "steps", "batch_size", "optimizer",
     "learning_rate", "resolution", "lora_rank"}

\* cli_args as train gathers them: every key is present, None for an
\* option that was not given
CliArgs(destination, trigger_word, options) ==
    [k \in CliFields |->
        IF k = "destination" THEN {destination}
        ELSE IF k = "trigger_word" THEN {trigger_word}
        ELSE IF k \in DOMAIN options THEN {options[k]}
        ELSE None]

\* the invocations of train examined with the whole command: one whose
\* configuration validates and one whose configuration does not
TrainInvocations ==
    { [preset |-> "none", file_data |-> NoValues,
       cli_args |-> CliArgs(DestAlice, <<"Z", "X", "Q">>, NoValues)],
      [preset |-> "fast", file_data |-> [steps |-> 500],
       cli_args |-> CliArgs(DestAlice, <<"Z", "X", "Q">>, NoValues)] }

\* the invocations of train examined up to the submission
ConfigInvocations ==
    { [preset |-> p, file_data |-> f, cli_args |-> CliArgs(d, t, o)] :
        p \in DOMAIN PRESETS, f \in FileConfigs, d \in CliDestinations,
        t \in CliTriggerWords, o \in CliOptions }

\* an invocation that is not train
NoInvocation == [preset |-> "none", file_data |-> NoValues, cli_args |-> NoValues]

(***************************************************************************)
(* Initial states: one invocation of train, cancel or download.            *)
(***************************************************************************)
InitCommon ==
    /\ run = 1
    /\ firstPath = <<>>
    /\ exitCode = -1
    /\ handler = "none"
    /\ interrupted = FALSE
    /\ net = <<>>
    /\ out = {}
    /\ tmpZip = FALSE
    /\ report = NoReport
    /\ structResult = "none"
    /\ urlResult = "none"
    /\ configResult = "none"
    /\ training_config = NoValues
    /\ apiToken = <<>>
    /\ polls = <<>>
    /\ final_status = "none"
    /\ cancelFetched = "none"
    /\ cancelResult = "none"
    /\ dlResult = "none"
    /\ dlFetched = "none"
    /\ model_file_path = <<>>
    /\ renames = 0
    /\ tarMembers = {}
    /\ caption_todo = {}
    /\ caption_count = 0
    /\ tmpTar = FALSE
    /\ fsSub = {}

InitTrain ==
    /\ cmd = "train"
    /\ pc = "t_url"
    /\ dry_run \in BOOLEAN
    /\ wait \in BOOLEAN
    /\ dataset_url \in DatasetUrls
    /\ archive \in TrainArchives
    /\ training_id = <<>>
    /\ inv \in TrainInvocations
    /\ jobDest = <<>>
    /\ jobTrigger = <<>>
    /\ jobStatus = "absent"
    /\ jobOutput = FALSE
    /\ \E d \in (IF wait /\ ~dry_run THEN OutputDirs ELSE {EmptyDir}) :
          /\ fsDirs = d.dirs
          /\ fsRoot = d.root
          /\ fsCaptions = d.captions
          /\ fsBefore = d

InitCancel ==
    /\ cmd = "cancel"
    /\ pc = "c_validate"
    /\ dry_run = FALSE
    /\ wait = FALSE
    /\ dataset_url = <<>>
    /\ archive = {}
    /\ training_id \in TrainingIds
    /\ inv = NoInvocation
    /\ jobDest = DestAlice
    /\ jobTrigger \in Triggers
    /\ jobStatus \in Statuses
    /\ jobOutput \in (IF jobStatus = "succeeded" THEN BOOLEAN ELSE {FALSE})
    /\ fsDirs = {}
    /\ fsRoot = {}
    /\ fsCaptions = {}
    /\ fsBefore = EmptyDir

InitDownload ==
    /\ cmd = "download"
    /\ pc = "d_validate"
    /\ dry_run = FALSE
    /\ wait = FALSE
    /\ dataset_url = <<>>
    /\ archive = {}
    /\ training_id \in TrainingIds
    /\ inv = NoInvocation
    /\ jobDest \in Destinations
    /\ jobTrigger \in Triggers
    /\ jobStatus \in Statuses
    /\ jobOutput \in (IF jobStatus = "succeeded" THEN BOOLEAN ELSE {FALSE})
    /\ \E d \in OutputDirs :
          /\ fsDirs = d.dirs
          /\ fsRoot = d.root
          /\ fsCaptions = d.captions
          /\ fsBefore = d

Init ==
    /\ InitCommon
    /\ \/ InitTrain
       \/ InitCancel
       \/ InitDownload

(***************************************************************************)
(* The train command, up to the submission.                                *)
(***************************************************************************)
StrZip     == <<"z", "i", "p">>
DotZip     == <<".", "z", "i", "p">>
StrCaption == <<"c", "a", "p", "t", "i", "o", "n">>
TokenPrefix == <<"r", "8", "_">>

\* validate_dataset_url passes a response whose content type names zip or
\* whose URL ends in .zip
LooksLikeZip(contentTypeHasZip, url) ==
    contentTypeHasZip \/ EndsWith(Lower(url), DotZip)

\* The handler of validate_dataset_structure: an error whose text contains
\* "caption" is raised again as it is, any other becomes a ValueError.
\* The text of a requests error names the URL.
ReRaisedType(type, text) ==
    IF Contains(text, StrCaption) THEN type ELSE "ValueError"

\* validate_dataset_structure raises an exception of this type.  train
\* catches ValueError and exits; any other exception reaches handle_errors.
StructRaise(type) ==
    /\ structResult' = type
    /\ IF cmd = "train"
       THEN IF type = "ValueError" THEN Exit(1, "dataset") ELSE Exit(1, "handle_errors")
       ELSE Exit(1, "raised")

\* mutant: the prefix is not checked
ValidApiTokenNonEmpty(token) == token # <<>>

\* validate_api_token
ValidApiToken(token) ==
    /\ token # <<>>
    /\ StartsWith(token, TokenPrefix)

\* mutant: train goes on after a failed probe
UrlRaiseIgnored ==
    /\ urlResult' = "ValueError"
    /\ pc' = "t_struct"
    /\ UNCHANGED <<exitCode, handler>>

\* validate_dataset_url raises ValueError: train reports it and exits
UrlRaise ==
    /\ urlResult' = "ValueError"
    /\ Exit(1, "dataset")

\* validate_dataset_url: the HEAD request and the checks of its response
TrainValidateUrl ==
    /\ pc = "t_url"
    /\ net' = Append(net, "HEAD")
    /\ \/ \* RequestException, raised as ValueError
          /\ UrlRaise
          /\ out' = out
       \/ \E contentTypeHasZip \in BOOLEAN, content_length \in {"absent", "small", "large", "bad"} :
             IF ~LooksLikeZip(contentTypeHasZip, dataset_url) \/ content_length = "bad"
             THEN /\ UrlRaise
                  /\ out' = out
             ELSE /\ urlResult' = "True"
                  /\ pc' = "t_struct"
                  /\ out' = out \cup (IF content_length = "large" THEN {"large_dataset"} ELSE {})
                  /\ UNCHANGED <<exitCode, handler>>
    /\ UNCHANGED <<invocation, interrupted, archive, tmpZip, report, structResult,
                   configResult, training_config, apiToken, jobVars, monitorVars, cancelVars, dlVars,
                   fsVars>>

\* validate_dataset_structure: requests.get(url) and raise_for_status
StructGet ==
    /\ pc = "t_struct"
    /\ net' = Append(net, "GET_ZIP")
    /\ \/ StructRaise(ReRaisedType("RequestException", dataset_url))
       \/ /\ pc' = "t_struct_tmp"
          /\ UNCHANGED <<exitCode, handler, structResult>>
    /\ UNCHANGED <<invocation, interrupted, out, archive, tmpZip, report, urlResult,
                   configResult, training_config, apiToken, jobVars, monitorVars, cancelVars, dlVars,
                   fsVars>>

\* the body is written to a NamedTemporaryFile(delete=False)
StructWrite ==
    /\ pc = "t_struct_tmp"
    /\ tmpZip' = TRUE
    /\ \/ \* the write fails: outside the try/finally
          StructRaise(ReRaisedType("OSError", <<>>))
       \/ /\ pc' = "t_struct_zip"
          /\ UNCHANGED <<exitCode, handler, structResult>>
    /\ UNCHANGED <<invocation, interrupted, net, out, archive, report, urlResult,
                   configResult, training_config, apiToken, jobVars, monitorVars, cancelVars, dlVars,
                   fsVars>>

\* the archive is opened and inspected; the finally clause unlinks the file
StructInspect ==
    /\ pc = "t_struct_zip"
    /\ tmpZip' = FALSE
    /\ \/ \* BadZipFile
          /\ StructRaise(ReRaisedType("BadZipFile", <<>>))
          /\ UNCHANGED <<report, out>>
       \/ \E r \in InspectArchive(archive) :
             /\ report' = r
             /\ IF r.kind = "ok"
                THEN /\ structResult' = "True"
                     /\ out' = out \cup (IF r.warned # {} THEN {"unpaired_captions"} ELSE {})
                     /\ IF cmd = "train"
                        THEN /\ pc' = "t_config"
                             /\ UNCHANGED <<exitCode, handler>>
                        ELSE Exit(0, "none")
                ELSE /\ StructRaise("ValueError")
                     /\ out' = out
    /\ UNCHANGED <<invocation, interrupted, net, archive, urlResult, configResult, training_config,
                   apiToken, jobVars, monitorVars, cancelVars, dlVars, fsVars>>

\* ConfigManager.create_config: the sources are merged and
\* TrainingConfig(**config_data) is built or raises; train exits on any
\* exception
TrainCreateConfig ==
    /\ pc = "t_config"
    /\ LET data == config_data(inv.preset, inv.file_data, inv.cli_args)
       IN  IF Validates(data)
           THEN /\ configResult' = "built"
                /\ training_config' = BuiltConfig(data)
                /\ pc' = "t_init"
                /\ UNCHANGED <<exitCode, handler>>
           ELSE /\ configResult' = "raised"
                /\ training_config' = training_config
                /\ Exit(1, "config")
    /\ UNCHANGED <<invocation, interrupted, net, out, archive, tmpZip, report,
                   structResult, urlResult, apiToken, jobVars, monitorVars, cancelVars,
                   dlVars, fsVars>>

\* TrainingManager(): the token is validated, no request is made
ManagerInit ==
    /\ pc \in {"t_init", "c_init", "d_init"}
    /\ \E token \in Tokens :
          /\ apiToken' = token
          /\ IF ValidApiToken(token)
             THEN /\ pc' = CASE pc = "t_init" -> "t_submit"
                             [] pc = "c_init" -> "c_get"
                             [] pc = "d_init" -> "dl_status"
                  /\ UNCHANGED <<exitCode, handler>>
             ELSE Exit(1, "init")
    /\ UNCHANGED <<invocation, interrupted, net, out, datasetVars, jobVars,
                   monitorVars, cancelVars, dlVars, fsVars>>

\* submit_training and what train does with its result
TrainSubmit ==
    /\ pc = "t_submit"
    /\ IF dry_run
       THEN /\ out' = out \cup {"dry_run"}
            /\ Exit(0, "none")
            /\ UNCHANGED <<net, jobStatus, jobDest, jobTrigger>>
       ELSE /\ net' = Append(net, "create")
            /\ \/ \* client.trainings.create raises: raised again, caught by train
                  /\ Exit(1, "submit")
                  /\ UNCHANGED <<out, jobStatus, jobDest, jobTrigger>>
               \/ /\ jobStatus' = "starting"
                  /\ jobDest' = training_config.destination
                  /\ jobTrigger' = training_config.trigger_word
                  /\ \E hasId \in BOOLEAN :
                        IF ~hasId
                        THEN /\ Exit(1, "no_id")
                             /\ out' = out
                        ELSE IF wait
                        THEN /\ pc' = "mon_fetch"
                             /\ out' = out \cup {"submitted"}
                             /\ UNCHANGED <<exitCode, handler>>
                        ELSE /\ Exit(0, "none")
                             /\ out' = out \cup {"submitted"}
    /\ UNCHANGED <<invocation, interrupted, datasetVars, apiToken, jobOutput,
                   monitorVars, cancelVars, dlVars, fsVars>>

(***************************************************************************)
(* The remote service changes the job on its own while a command runs.     *)
(***************************************************************************)
RemoteStep ==
    /\ pc # "done"
    /\ jobStatus \notin ServiceTerminal \cup {"absent"}
    /\ \E s \in Statuses \ {jobStatus} :
          /\ jobStatus' = s
          /\ jobOutput' \in (IF s = "succeeded" THEN BOOLEAN ELSE {FALSE})
    /\ UNCHANGED <<invocation, control, net, out, datasetVars, apiToken, jobDest,
                   jobTrigger, monitorVars, cancelVars, dlVars, fsVars>>

(***************************************************************************)
(* monitor_training.                                                       *)
(***************************************************************************)
\* mutant: the branch for 'canceled' is missing
MonitorReturnsNoCanceled(status) == status \in {"succeeded", "failed"}

\* mutant: the branch for 'succeeded' is missing
MonitorReturnsNoSucceeded(status) == status \in {"failed", "canceled"}

\* the statuses on which the loop returns the status
MonitorReturns(status) == status \in {"succeeded", "failed", "canceled"}

\* get_training_status is called
MonGetSend ==
    /\ pc = "mon_fetch"
    /\ Len(polls) < MaxPolls
    /\ net' = Append(net, "get_mon")
    /\ pc' = "mon_fetching"
    /\ UNCHANGED <<invocation, exitCode, handler, interrupted, out, datasetVars,
                   apiToken, jobVars, monitorVars, cancelVars, dlVars, fsVars>>

\* mutant: a failed fetch is tried again
MonFetchFailedRetry ==
    /\ pc' = "mon_fetch"
    /\ UNCHANGED <<polls, final_status>>

\* get_training_status raises: the loop's handler returns "error"
MonFetchFailed ==
    /\ final_status' = "error"
    /\ pc' = "t_after_mon"
    /\ UNCHANGED polls

\* get_training_status returns the job's status or raises
MonGetRecv ==
    /\ pc = "mon_fetching"
    /\ \/ MonFetchFailed
       \/ /\ polls' = Append(polls, jobStatus)
          /\ pc' = IF MonitorReturns(jobStatus) THEN "mon_report" ELSE "mon_update"
          /\ UNCHANGED final_status
    /\ UNCHANGED <<invocation, exitCode, handler, interrupted, net, out, datasetVars,
                   apiToken, jobVars, cancelVars, dlVars, fsVars>>

\* the terminal status is reported and returned
MonReport ==
    /\ pc = "mon_report"
    /\ final_status' = polls[Len(polls)]
    /\ pc' = "t_after_mon"
    /\ UNCHANGED <<invocation, exitCode, handler, interrupted, net, out, datasetVars,
                   apiToken, jobVars, polls, cancelVars, dlVars, fsVars>>

\* mutant: the loop goes on to the next fetch without sleeping
MonSleepSkipped ==
    /\ pc = "mon_update"
    /\ pc' = "mon_fetch"
    /\ UNCHANGED <<invocation, exitCode, handler, interrupted, net, out, datasetVars,
                   apiToken, jobVars, monitorVars, cancelVars, dlVars, fsVars>>

\* time.sleep(check_interval) begins
MonSleepStart ==
    /\ pc = "mon_update"
    /\ net' = Append(net, "sleep")
    /\ pc' = "mon_sleeping"
    /\ UNCHANGED <<invocation, exitCode, handler, interrupted, out, datasetVars,
                   apiToken, jobVars, monitorVars, cancelVars, dlVars, fsVars>>

MonSleepEnd ==
    /\ pc = "mon_sleeping"
    /\ pc' = "mon_fetch"
    /\ UNCHANGED <<invocation, exitCode, handler, interrupted, net, out, datasetVars,
                   apiToken, jobVars, monitorVars, cancelVars, dlVars, fsVars>>

MonitorPcs == {"mon_fetch", "mon_fetching", "mon_report", "mon_update", "mon_sleeping"}

\* KeyboardInterrupt inside the try block of the loop
MonInterrupt ==
    /\ pc \in MonitorPcs
    /\ interrupted' = TRUE
    /\ final_status' = "monitoring_stopped"
    /\ pc' = "t_after_mon"
    /\ UNCHANGED <<invocation, exitCode, handler, net, out, datasetVars,
                   apiToken, jobVars, polls, cancelVars, dlVars, fsVars>>

\* mutant: every result but 'failed' and 'canceled' leads to the download
DownloadAfterMonitorUnlessFailed(status) == status \notin {"failed", "canceled"}

\* train --wait calls download_result for this result of monitor_training
DownloadAfterMonitor(status) == status = "succeeded"

\* train --wait: what follows monitor_training
TrainAfterMonitor ==
    /\ pc = "t_after_mon"
    /\ IF DownloadAfterMonitor(final_status)
       THEN /\ pc' = "dl_status"
            /\ UNCHANGED <<exitCode, handler>>
       ELSE IF final_status \in {"failed", "canceled"}
       THEN Exit(1, "final_status")
       ELSE Exit(0, "none")
    /\ UNCHANGED <<invocation, interrupted, net, out, datasetVars, apiToken, jobVars,
                   monitorVars, cancelVars, dlVars, fsVars>>

(***************************************************************************)
(* download_result.                                                        *)
(***************************************************************************)
\* destination.split('/')[-1] if '/' in destination else destination
model_name(destination) ==
    SubSeq(destination, RFind(destination, "/") + 1, Len(destination))

\* f"{model_name}_{trigger_word}.safetensors"
new_filename(destination, trigger_word) ==
    model_name(destination) \o <<"_">> \o trigger_word \o ExtSafetensors

\* Path.suffix: from the last dot of the name, unless the name starts or
\* ends with that dot
Suffix(name) ==
    LET i == RFind(name, ".")
    IN  IF i > 1 /\ i < Len(name) THEN SubSeq(name, i, Len(name)) ELSE <<>>

\* output_path.glob('*.safetensors') and output_path.glob('*.txt')
GlobSafetensors(root) == {f \in root : EndsWith(f, ExtSafetensors)}

GlobTxt(root) == {f \in root : EndsWith(f, ExtTxt)}

\* mutant: the cleanup loop does not spare weights files
CleanupTargetsAnySuffix(root) == {f \in root : f \notin {F_env, F_config}}

\* the files the cleanup loop unlinks
CleanupTargets(root) ==
    {f \in root : Suffix(f) # ExtSafetensors /\ f \notin {F_env, F_config}}

InRoot(member) == ~Contains(member, <<"/">>)

\* download_result raises (after its finally clause, where one applies)
DlRaise ==
    /\ dlResult' = "raised"
    /\ pc' = "dl_done"

\* mutant: the output location is not checked
DownloadRefusedByStatusOnly(status, hasOutput) == status # "succeeded"

\* download_result returns None for this status and output location
DownloadRefused(status, hasOutput) == status # "succeeded" \/ ~hasOutput

\* get_training_status, then the checks of status and output location
DlGetStatus ==
    /\ pc = "dl_status"
    /\ net' = Append(net, "get_dl")
    /\ \/ /\ DlRaise
          /\ UNCHANGED dlFetched
       \/ /\ dlFetched' = jobStatus
          /\ IF DownloadRefused(jobStatus, jobOutput)
             THEN /\ dlResult' = "None"
                  /\ pc' = "dl_done"
             ELSE /\ pc' = "dl_get"
                  /\ UNCHANGED dlResult
    /\ UNCHANGED <<invocation, exitCode, handler, interrupted, out, datasetVars,
                   apiToken, jobVars, monitorVars, cancelVars, model_file_path, renames,
                   tarMembers, caption_todo, caption_count, tmpTar, fsVars>>

\* requests.get(output_url, stream=True) and raise_for_status
DlRequest ==
    /\ pc = "dl_get"
    /\ net' = Append(net, "GET_TAR")
    /\ \/ DlRaise
       \/ /\ pc' = "dl_mkdir"
          /\ UNCHANGED dlResult
    /\ UNCHANGED <<invocation, exitCode, handler, interrupted, out, datasetVars,
                   apiToken, jobVars, monitorVars, cancelVars, dlFetched,
                   model_file_path, renames, tarMembers, caption_todo, caption_count, tmpTar,
                   fsVars>>

\* the output directory and captions/ are created if missing
DlMkdir ==
    /\ pc = "dl_mkdir"
    /\ \/ /\ fsDirs' = fsDirs \cup {"out", "captions"}
          /\ pc' = "dl_stream"
          /\ UNCHANGED dlResult
       \/ \* mkdir fails, for the output directory or for captions/
          /\ \E made \in {{}, {"out"}} : fsDirs' = fsDirs \cup made
          /\ DlRaise
    /\ UNCHANGED <<invocation, exitCode, handler, interrupted, net, out, datasetVars,
                   apiToken, jobVars, monitorVars, cancelVars, dlFetched,
                   model_file_path, renames, tarMembers, caption_todo, caption_count, tmpTar,
                   fsRoot, fsCaptions, fsSub, fsBefore>>

\* the body is streamed into a NamedTemporaryFile(delete=False)
DlStream ==
    /\ pc = "dl_stream"
    /\ tmpTar' = TRUE
    /\ \/ /\ pc' = "dl_extract"
          /\ UNCHANGED dlResult
       \/ \* the transfer or a write fails: outside the try/finally
          DlRaise
    /\ UNCHANGED <<invocation, exitCode, handler, interrupted, net, out, datasetVars,
                   apiToken, jobVars, monitorVars, cancelVars, dlFetched,
                   model_file_path, renames, tarMembers, caption_todo, caption_count, fsVars>>

\* tarfile.open and extractall into the output directory; a second run
\* for the same job is served the same archive
DlExtract ==
    /\ pc = "dl_extract"
    /\ \E tar \in (IF run = 1 THEN TarArchives ELSE {tarMembers}) :
          /\ tarMembers' = tar
          /\ \/ /\ fsRoot' = fsRoot \cup {m \in tar : InRoot(m)}
                /\ fsSub' = fsSub \cup {m \in tar : ~InRoot(m)}
                /\ pc' = "dl_rename"
                /\ UNCHANGED <<dlResult, tmpTar>>
             \/ \* unreadable archive, or a failure part-way through
                \E done \in (SUBSET tar) \ {tar} :
                   /\ fsRoot' = fsRoot \cup {m \in done : InRoot(m)}
                   /\ fsSub' = fsSub \cup {m \in done : ~InRoot(m)}
                   /\ tmpTar' = FALSE
                   /\ DlRaise
    /\ UNCHANGED <<invocation, exitCode, handler, interrupted, net, out, datasetVars,
                   apiToken, jobVars, monitorVars, cancelVars, dlFetched,
                   model_file_path, renames, caption_todo, caption_count,
                   fsDirs, fsCaptions, fsBefore>>

\* mutant: the file is renamed whatever its name
RenameAlways(original_name, new_name) == TRUE

\* original_file.rename is called when the names differ
RenameNeeded(original_name, new_name) == original_name # new_name

\* the weights file is found and renamed; the caption files are listed
DlRename ==
    /\ pc = "dl_rename"
    /\ IF GlobSafetensors(fsRoot) = {}
       THEN /\ out' = out \cup {"no_safetensors"}
            /\ dlResult' = "None"
            /\ pc' = "dl_done"
            /\ tmpTar' = FALSE
            /\ UNCHANGED <<model_file_path, renames, caption_todo, fsRoot>>
       ELSE \E original_file \in GlobSafetensors(fsRoot) :
               LET new == new_filename(jobDest, jobTrigger)
               IN  \/ /\ fsRoot' = (fsRoot \ {original_file}) \cup {new}
                      /\ renames' = renames + (IF RenameNeeded(original_file, new) THEN 1 ELSE 0)
                      /\ model_file_path' = new
                      /\ caption_todo' = GlobTxt(fsRoot')
                      /\ out' = out \cup {"model_file"}
                      /\ pc' = "dl_captions"
                      /\ UNCHANGED <<dlResult, tmpTar>>
                   \/ \* original_file.rename fails
                      /\ RenameNeeded(original_file, new)
                      /\ renames' = renames + 1
                      /\ tmpTar' = FALSE
                      /\ DlRaise
                      /\ UNCHANGED <<model_file_path, caption_todo, fsRoot, out>>
    /\ UNCHANGED <<invocation, exitCode, handler, interrupted, net, datasetVars,
                   apiToken, jobVars, monitorVars, cancelVars, dlFetched,
                   tarMembers, caption_count, fsDirs, fsCaptions, fsSub, fsBefore>>

\* one caption file is moved into captions/
DlMoveCaption ==
    /\ pc = "dl_captions"
    /\ \E caption_file \in caption_todo :
          \/ /\ fsRoot' = fsRoot \ {caption_file}
             /\ fsCaptions' = fsCaptions \cup {caption_file}
             /\ caption_count' = caption_count + 1
             /\ caption_todo' = caption_todo \ {caption_file}
             /\ UNCHANGED <<pc, dlResult, tmpTar>>
          \/ \* caption_file.rename fails
             /\ tmpTar' = FALSE
             /\ DlRaise
             /\ UNCHANGED <<fsRoot, fsCaptions, caption_count, caption_todo>>
    /\ UNCHANGED <<invocation, exitCode, handler, interrupted, net, out, datasetVars,
                   apiToken, jobVars, monitorVars, cancelVars, dlFetched,
                   model_file_path, renames, tarMembers, fsDirs, fsSub, fsBefore>>

\* the cleanup loop (an unlink that fails is ignored), the finally clause
\* and the return of the path
DlCleanup ==
    /\ pc = "dl_captions"
    /\ caption_todo = {}
    /\ \E kept \in SUBSET CleanupTargets(fsRoot) :
          fsRoot' = fsRoot \ (CleanupTargets(fsRoot) \ kept)
    /\ out' = out \cup (IF caption_count > 0 THEN {"captions_moved"} ELSE {"no_captions"})
    /\ tmpTar' = FALSE
    /\ dlResult' = "path"
    /\ pc' = "dl_done"
    /\ UNCHANGED <<invocation, exitCode, handler, interrupted, net, datasetVars,
                   apiToken, jobVars, monitorVars, cancelVars, dlFetched,
                   model_file_path, renames, tarMembers, caption_todo, caption_count,
                   fsDirs, fsCaptions, fsSub, fsBefore>>

\* mutant: no handler of the command catches the exception
DownloadRaisedUnhandled(command) == "handle_errors"

\* the handler that catches an exception download_result raises: the
\* except clause around the submission in train, the one of download
DownloadRaisedHandler(command) == IF command = "train" THEN "submit" ELSE "download"

\* the caller of download_result: train --wait or the download command
AfterDownload ==
    /\ pc = "dl_done"
    /\ IF cmd = "train"
       THEN CASE dlResult = "path" -> Exit(0, "none")
              [] dlResult = "None" -> Exit(0, "download_failed")
              [] OTHER -> Exit(1, DownloadRaisedHandler(cmd))
       ELSE CASE dlResult = "path" -> Exit(0, "none")
              [] dlResult = "None" -> Exit(1, "download_failed")
              [] OTHER -> Exit(1, DownloadRaisedHandler(cmd))
    /\ UNCHANGED <<invocation, interrupted, net, out, datasetVars, apiToken, jobVars,
                   monitorVars, cancelVars, dlVars, fsVars>>

(***************************************************************************)
(* The cancel and download commands.                                       *)
(***************************************************************************)
AlnumChars == {"a", "b", "c", "d", "1", "2", "3"}

Remove(s, c) == SelectSeq(s, LAMBDA x : x # c)

\* str.isalnum(): false for the empty string
IsAlnum(s) == s # <<>> /\ \A i \in 1..Len(s) : s[i] \in AlnumChars

\* validate_training_id raises ValueError unless this holds
ValidTrainingId(id) ==
    /\ id # <<>>
    /\ Len(id) >= 8
    /\ IsAlnum(Remove(Remove(id, "-"), "_"))

\* validate_training_id at the start of cancel and download; a ValueError
\* reaches handle_errors
CmdValidateId ==
    /\ pc \in {"c_validate", "d_validate"}
    /\ IF ValidTrainingId(training_id)
       THEN /\ pc' = IF pc = "c_validate" THEN "c_confirm" ELSE "d_init"
            /\ UNCHANGED <<exitCode, handler>>
       ELSE Exit(1, "handle_errors")
    /\ UNCHANGED <<invocation, interrupted, net, out, datasetVars, apiToken, jobVars,
                   monitorVars, cancelVars, dlVars, fsVars>>

\* Confirm.ask
CancelConfirm ==
    /\ pc = "c_confirm"
    /\ \/ /\ pc' = "c_init"
          /\ UNCHANGED <<exitCode, handler, out>>
       \/ /\ out' = out \cup {"cancellation_aborted"}
          /\ Exit(0, "none")
    /\ UNCHANGED <<invocation, interrupted, net, datasetVars, apiToken, jobVars,
                   monitorVars, cancelVars, dlVars, fsVars>>

\* mutant: the status is not checked
CancelableAlways(status) == TRUE

\* mutant: every status that is not a final one is cancelled
CancelableUnlessFinal(status) == status \notin {"succeeded", "failed", "canceled"}

\* the job statuses cancel_training sends a cancel request for
Cancelable(status) == status \in {"starting", "processing"}

\* cancel_training: client.trainings.get and the check of the status
CancelGet ==
    /\ pc = "c_get"
    /\ net' = Append(net, "get_cancel")
    /\ \/ \* the fetch raises: raised again, caught by the command
          /\ cancelResult' = "raised"
          /\ Exit(1, "cancel")
          /\ UNCHANGED cancelFetched
       \/ /\ cancelFetched' = jobStatus
          /\ IF Cancelable(jobStatus)
             THEN /\ pc' = "c_send"
                  /\ UNCHANGED cancelResult
             ELSE /\ cancelResult' = "False"
                  /\ pc' = "c_after"
          /\ UNCHANGED <<exitCode, handler>>
    /\ UNCHANGED <<invocation, interrupted, out, datasetVars, apiToken, jobVars,
                   monitorVars, dlVars, fsVars>>

\* training.cancel(): the request reaches the service, which cancels a job
\* that is still running, or the request fails
CancelSend ==
    /\ pc = "c_send"
    /\ net' = Append(net, "cancel")
    /\ \/ /\ jobStatus' = IF jobStatus \in ServiceTerminal THEN jobStatus ELSE "canceled"
          /\ cancelResult' = "True"
          /\ pc' = "c_after"
          /\ UNCHANGED <<exitCode, handler>>
       \/ /\ cancelResult' = "raised"
          /\ Exit(1, "cancel")
          /\ UNCHANGED jobStatus
    /\ UNCHANGED <<invocation, interrupted, out, datasetVars, apiToken, jobOutput,
                   jobDest, jobTrigger, monitorVars, cancelFetched, dlVars, fsVars>>

\* the cancel command reports the result
CancelAfter ==
    /\ pc = "c_after"
    /\ out' = out \cup {IF cancelResult = "True" THEN "cancel_requested" ELSE "not_canceled"}
    /\ Exit(0, "none")
    /\ UNCHANGED <<invocation, interrupted, net, datasetVars, apiToken, jobVars,
                   monitorVars, cancelVars, dlVars, fsVars>>

\* The download command is run a second time for the same training, into
\* the same output directory, after a first run that returned a path: a
\* new invocation, with the directory as the first run left it.
DownloadAgain ==
    /\ pc = "done"
    /\ cmd = "download"
    /\ run = 1
    /\ dlResult = "path"
    /\ run' = 2
    /\ firstPath' = model_file_path
    /\ pc' = "d_validate"
    /\ exitCode' = -1
    /\ handler' = "none"
    /\ interrupted' = FALSE
    /\ net' = <<>>
    /\ out' = {}
    /\ dlResult' = "none"
    /\ dlFetched' = "none"
    /\ model_file_path' = <<>>
    /\ renames' = 0
    /\ caption_todo' = {}
    /\ caption_count' = 0
    /\ fsBefore' = [dirs |-> fsDirs, root |-> fsRoot, captions |-> fsCaptions]
    /\ UNCHANGED <<cmd, dry_run, wait, dataset_url, training_id, inv,
                   datasetVars, apiToken, jobVars, monitorVars, cancelVars, tarMembers,
                   tmpTar, fsDirs, fsRoot, fsCaptions, fsSub>>

(***************************************************************************)
(* KeyboardInterrupt outside monitor_training: no handler of the commands  *)
(* catches it; a finally clause on the way runs; handle_errors exits.      *)
(***************************************************************************)
DownloadPcs == {"dl_status", "dl_get", "dl_mkdir", "dl_stream", "dl_extract",
                "dl_rename", "dl_captions", "dl_done"}

CmdInterrupt ==
    /\ pc \notin MonitorPcs \cup {"done"}
    /\ interrupted' = TRUE
    /\ Exit(1, "handle_errors")
    /\ tmpZip' \in (CASE pc = "t_struct_tmp" -> BOOLEAN
                      [] pc = "t_struct_zip" -> {FALSE}
                      [] OTHER -> {tmpZip})
    /\ tmpTar' \in (CASE pc = "dl_stream" -> BOOLEAN
                      [] pc \in {"dl_extract", "dl_rename", "dl_captions"} -> {FALSE}
                      [] OTHER -> {tmpTar})
    /\ dlResult' = IF pc \in DownloadPcs \ {"dl_done"} THEN "raised" ELSE dlResult
    /\ structResult' = IF pc \in {"t_struct", "t_struct_tmp", "t_struct_zip"}
                       THEN "KeyboardInterrupt" ELSE structResult
    /\ UNCHANGED <<invocation, net, out, archive, report, urlResult, configResult, training_config,
                   apiToken, jobVars, monitorVars, cancelVars, dlFetched, model_file_path, renames, tarMembers, caption_todo,
                   caption_count, fsVars>>

Next ==
    \/ TrainValidateUrl
    \/ StructGet
    \/ StructWrite
    \/ StructInspect
    \/ TrainCreateConfig
    \/ ManagerInit
    \/ TrainSubmit
    \/ RemoteStep
    \/ MonGetSend
    \/ MonGetRecv
    \/ MonReport
    \/ MonSleepStart
    \/ MonSleepEnd
    \/ MonInterrupt
    \/ TrainAfterMonitor
    \/ DlGetStatus
    \/ DlRequest
    \/ DlMkdir
    \/ DlStream
    \/ DlExtract
    \/ DlRename
    \/ DlMoveCaption
    \/ DlCleanup
    \/ AfterDownload
    \/ CmdValidateId
    \/ CancelConfirm
    \/ CancelGet
    \/ CancelSend
    \/ CancelAfter
    \/ DownloadAgain
    \/ CmdInterrupt

Spec == Init /\ [][Next]_vars

(***************************************************************************)
(* validate_dataset_structure on its own, over every archive listing of    *)
(* at most MaxEntries entries.                                             *)
(***************************************************************************)
InitDataset ==
    /\ InitCommon
    /\ cmd = "validate"
    /\ pc = "t_struct"
    /\ dry_run = FALSE
    /\ wait = FALSE
    /\ dataset_url \in {UrlZip, UrlCaption}
    /\ archive \in ArchiveListings
    /\ training_id = <<>>
    /\ inv = NoInvocation
    /\ jobDest = <<>>
    /\ jobTrigger = <<>>
    /\ jobStatus = "absent"
    /\ jobOutput = FALSE
    /\ fsDirs = {}
    /\ fsRoot = {}
    /\ fsCaptions = {}
    /\ fsBefore = EmptyDir

NextDataset ==
    \/ StructGet
    \/ StructWrite
    \/ StructInspect
    \/ CmdInterrupt

SpecDataset == InitDataset /\ [][NextDataset]_vars

(***************************************************************************)
(* train from create_config to the submission, over the invocations of     *)
(* ConfigInvocations: the dataset has passed its validation.               *)
(***************************************************************************)
InitConfig ==
    /\ InitCommon
    /\ cmd = "train"
    /\ pc = "t_config"
    /\ dry_run \in BOOLEAN
    /\ wait = FALSE
    /\ dataset_url = UrlZip
    /\ archive = {A_jpg, A_txt}
    /\ training_id = <<>>
    /\ inv \in ConfigInvocations
    /\ jobDest = <<>>
    /\ jobTrigger = <<>>
    /\ jobStatus = "absent"
    /\ jobOutput = FALSE
    /\ fsDirs = {}
    /\ fsRoot = {}
    /\ fsCaptions = {}
    /\ fsBefore = EmptyDir

NextConfig ==
    \/ TrainCreateConfig
    \/ ManagerInit
    \/ TrainSubmit
    \/ CmdInterrupt

SpecConfig == InitConfig /\ [][NextConfig]_vars

(***************************************************************************)
(* Properties of the commands (checked under Spec).                        *)
(***************************************************************************)
NoTerminalPolled == \A k \in 1..Len(polls) : polls[k] \notin ServiceTerminal

\* C1: when the first terminal status (succeeded, failed, canceled) is the
\* k-th status monitor_training fetches, with no fetch error and no
\* interrupt, it returns exactly that status right after the k-th fetch:
\* k fetches and k-1 sleeps have been made and none follows.
C1_MonitorReturnsFirstTerminal ==
    \A k \in 1..Len(polls) :
        polls[k] \in ServiceTerminal =>
            /\ k = Len(polls)
            /\ Count("get_mon") = k
            /\ Count("sleep") = k - 1
            /\ ~interrupted => (pc = "mon_report" \/ final_status = polls[k])

C1_Witness ==
    /\ ~interrupted
    /\ pc = "done"
    /\ Len(polls) = 3
    /\ final_status = "failed"
    /\ polls[3] = "failed"

\* C2: an interrupt delivered while monitor_training polls, before any
\* terminal status was fetched, makes it return "monitoring_stopped", and
\* from then on nothing is fetched, no cancel request is sent and no other
\* call or sleep is made.
C2_InterruptStopsMonitoring ==
    [][ /\ (pc \in MonitorPcs /\ ~interrupted /\ interrupted' /\ NoTerminalPolled)
            => final_status' = "monitoring_stopped"
        /\ (final_status = "monitoring_stopped" /\ NoTerminalPolled)
            => (net' = net /\ Count("cancel") = 0 /\ Count("get_dl") = 0)
      ]_vars

C2_Witness ==
    /\ final_status = "monitoring_stopped"
    /\ NoTerminalPolled
    /\ Len(polls) = 2
    /\ pc = "done"
    /\ exitCode = 0

\* C3: once a status fetch of monitor_training has raised, the function has
\* returned "error": the failed fetch is its last call, no sleep follows
\* it, and the command ends normally, the exception caught.
C3_FetchErrorReturnsError ==
    (Count("get_mon") > Len(polls) /\ pc # "mon_fetching"
        /\ final_status # "monitoring_stopped") =>
        /\ final_status = "error"
        /\ Count("get_mon") = Len(polls) + 1
        /\ Count("sleep") = Len(polls)
        /\ net[Len(net)] = "get_mon"
        /\ pc \in {"t_after_mon", "done"}
        /\ (pc = "done" /\ ~interrupted) => (exitCode = 0 /\ handler = "none")

C3_Witness ==
    /\ final_status = "error"
    /\ Len(polls) = 2
    /\ pc = "done"
    /\ ~interrupted

HasProviderPrefix(token) ==
    /\ Len(token) >= 3
    /\ token[1] = "r"
    /\ token[2] = "8"
    /\ token[3] = "_"

\* C4: train issues client.trainings.create only after validate_dataset_url,
\* validate_dataset_structure, the TrainingConfig construction and the token
\* validation have succeeded and only without dry_run; when one of them
\* failed, or with dry_run, no job is created.
C4_CreateOnlyAfterValidation ==
    /\ Count("create") > 0 =>
          /\ cmd = "train"
          /\ ~dry_run
          /\ urlResult = "True"
          /\ structResult = "True"
          /\ configResult = "built"
          /\ HasProviderPrefix(apiToken)
          /\ Count("create") = 1
    /\ ( /\ cmd = "train"
         /\ \/ urlResult = "ValueError"
            \/ structResult \notin {"none", "True"}
            \/ configResult = "raised"
            \/ handler = "init"
            \/ dry_run ) =>
          /\ Count("create") = 0
          /\ jobStatus = "absent"

C4_Witness ==
    /\ cmd = "train"
    /\ Count("create") = 1
    /\ jobStatus = "processing"
    /\ pc = "done"

\* C5: cancel_training sends the cancel request, and returns True, only
\* when the status it fetched is starting or processing; for any other
\* fetched status it returns False, sends no cancel request and raises
\* nothing.
C5_CancelOnlyWhenCancelable ==
    /\ Count("cancel") > 0 => cancelFetched \in {"starting", "processing"}
    /\ cancelResult = "True" =>
          /\ cancelFetched \in {"starting", "processing"}
          /\ Count("cancel") = 1
    /\ cancelFetched \notin {"none", "starting", "processing"} =>
          /\ cancelResult = "False"
          /\ Count("cancel") = 0
          /\ (pc = "done" /\ ~interrupted) => exitCode = 0

C5_Witness ==
    /\ cancelFetched = "succeeded"
    /\ cancelResult = "False"
    /\ pc = "done"
    /\ exitCode = 0

\* C9: the output archive is requested only right after a status fetch that
\* returned succeeded for a job with an output location; otherwise
\* download_result returns None with no request and with the output
\* directory untouched; train --wait calls download_result only after
\* monitor_training returned succeeded.
C9_DownloadOnlyWhenSucceeded ==
    /\ \A i \in 1..Len(net) : net[i] = "GET_TAR" => (i > 1 /\ net[i - 1] = "get_dl")
    /\ Count("GET_TAR") > 0 => (dlFetched = "succeeded" /\ jobOutput)
    /\ (dlFetched # "none" /\ (dlFetched # "succeeded" \/ ~jobOutput)) =>
          /\ dlResult = "None"
          /\ Count("GET_TAR") = 0
          /\ fsDirs = fsBefore.dirs
          /\ fsRoot = fsBefore.root
          /\ fsCaptions = fsBefore.captions
          /\ fsSub = {}
          /\ ~tmpTar
    /\ (cmd = "train" /\ Count("get_dl") > 0) => final_status = "succeeded"

C9_Witness ==
    /\ cmd = "download"
    /\ dlFetched = "succeeded"
    /\ ~jobOutput
    /\ dlResult = "None"
    /\ fsBefore.root # {}
    /\ pc = "done"

\* C10: when download_result fails (transfer error, unreadable archive, no
\* weights file, a failed move or rename), it returns no path and the
\* output directory holds nothing of that run: no renamed artifact, no
\* extracted or relocated file.
C10_NoPartialResult ==
    (dlResult \in {"None", "raised"} /\ ~interrupted) =>
        /\ fsRoot = fsBefore.root
        /\ fsCaptions = fsBefore.captions
        /\ fsSub = {}

(***************************************************************************)
(* Properties of validate_dataset_structure (checked under SpecDataset).   *)
(* The claims speak of images, captions and base names: an entry is an     *)
(* image or a caption by the end of its lower-cased name, and its base     *)
(* name is the name up to its last dot.                                    *)
(***************************************************************************)
ClaimIsImage(f) == \E e \in image_extensions : EndsWith(Lower(f), e)

ClaimIsCaption(f) == EndsWith(Lower(f), ExtTxt)

ClaimBase(f) == SubSeq(f, 1, RFind(f, ".") - 1)

ClaimImageBases(listing) == {ClaimBase(f) : f \in {g \in FilterFiles(listing) : ClaimIsImage(g)}}

ClaimCaptionBases(listing) == {ClaimBase(f) : f \in {g \in FilterFiles(listing) : ClaimIsCaption(g)}}

Inspected == report.kind # "none"

\* C6: an archive in which, after filtering, some image base name has a
\* caption of the same base name and no image base name lacks one passes
\* the validation, unpaired captions and other files notwithstanding, and
\* the paired count is the number of base names common to both sets.
C6_PairedArchivePasses ==
    LET images   == ClaimImageBases(archive)
        captions == ClaimCaptionBases(archive)
    IN  (Inspected /\ images \cap captions # {} /\ images \ captions = {}) =>
            /\ structResult = "True"
            /\ report.kind = "ok"
            /\ report.paired = Cardinality(images \cap captions)

C6_Witness ==
    /\ Inspected
    /\ report.kind = "ok"
    /\ report.paired = 2
    /\ report.warned # {}
    /\ report.others > 0

\* C7 as claimed: every archive with an image whose base name has no
\* caption fails with the unpaired-images error, which lists that base name.
C7_Original ==
    LET unpaired == ClaimImageBases(archive) \ ClaimCaptionBases(archive)
    IN  (Inspected /\ unpaired # {}) =>
            /\ report.kind = "unpaired_images"
            /\ unpaired \subseteq report.names

\* C7, amended: an archive with at least one caption file and an image
\* whose base name has no caption fails with the unpaired-images error; the
\* error lists every unpaired base name when they are at most 5, and
\* otherwise 5 of them with the count of the rest.
C7_UnpairedImagesFail ==
    LET unpaired == ClaimImageBases(archive) \ ClaimCaptionBases(archive)
    IN  (Inspected /\ ClaimCaptionBases(archive) # {} /\ unpaired # {}) =>
            /\ report.kind = "unpaired_images"
            /\ structResult = "ValueError"
            /\ report.names \subseteq unpaired
            /\ Cardinality(unpaired) <= 5 => (report.names = unpaired /\ report.more = 0)
            /\ Cardinality(unpaired) > 5 =>
                  /\ Cardinality(report.names) = 5
                  /\ report.more = Cardinality(unpaired) - 5

C7_Witness ==
    /\ report.kind = "unpaired_images"
    /\ Cardinality(report.names) = 5
    /\ report.more = 1

\* C8 as claimed: every archive without caption files fails with the
\* no-captions error, whatever its number of images.
C8_Original ==
    (Inspected /\ ClaimCaptionBases(archive) = {}) => report.kind = "no_captions"

\* C8, amended: an archive with at least one image file and no caption
\* file fails with the no-captions error, whatever its number of images.
C8_NoCaptionsFail ==
    (Inspected /\ ClaimImageBases(archive) # {} /\ ClaimCaptionBases(archive) = {}) =>
        /\ report.kind = "no_captions"
        /\ structResult = "ValueError"

C8_Witness ==
    /\ report.kind = "no_captions"
    /\ Cardinality(ClaimImageBases(archive)) = 3

(***************************************************************************)
(* Temporary files of the two downloads.                                   *)
(***************************************************************************)
\* C11: once validate_dataset_structure has returned or raised, its
\* temporary ZIP file has been deleted, whatever the exit path (success,
\* failed write of the body, unparsable archive, any validation error).
C11_TempZipDeleted ==
    (structResult \notin {"none", "KeyboardInterrupt"}) => ~tmpZip

\* C12: once download_result has returned or raised, its temporary .tar
\* file has been deleted, whatever the exit path (success, failed or
\* interrupted streaming, failed extraction, no weights file, failed rename).
C12_TempTarDeleted ==
    dlResult # "none" => ~tmpTar

(***************************************************************************)
(* Properties of the result download_result materializes (checked under    *)
(* Spec).  The claims speak of the model name as the part of the           *)
(* destination after its last '/'.                                         *)
(***************************************************************************)
ClaimModelName(destination) ==
    CHOOSE t \in {SubSeq(destination, i, Len(destination)) : i \in 1..Len(destination) + 1} :
        /\ \A j \in 1..Len(t) : t[j] # "/"
        /\ Len(t) = Len(destination) \/ destination[Len(destination) - Len(t)] = "/"

ClaimArtifact ==
    ClaimModelName(jobDest) \o <<"_">> \o jobTrigger
        \o <<".", "s", "a", "f", "e", "t", "e", "n", "s", "o", "r", "s">>

\* the weights files download_result can find in the output directory:
\* those of the archive's top level and those already there
WeightsCandidates ==
    {f \in fsBefore.root \cup tarMembers :
        /\ \A j \in 1..Len(f) : f[j] # "/"
        /\ EndsWith(f, ExtSafetensors)}

FreshWeights ==
    {f \in tarMembers :
        /\ \A j \in 1..Len(f) : f[j] # "/"
        /\ EndsWith(f, ExtSafetensors)
        /\ f # firstPath}

ClaimFileName(member) == ClaimModelName(member)

\* C15: after a successful download_result every caption (.txt) file of
\* the result archive is in captions/ under its own file name, none is
\* left in the output directory's root or in a subdirectory of it, and the
\* count reported is the number of files moved into captions/.
C15_CaptionsRelocated ==
    dlResult = "path" =>
        /\ \A m \in tarMembers :
              EndsWith(m, ExtTxt) =>
                  /\ ClaimFileName(m) \in fsCaptions
                  /\ m \notin fsRoot \cup fsSub
        /\ caption_count =
              Cardinality({f \in fsBefore.root \cup tarMembers :
                              EndsWith(f, ExtTxt) /\ ClaimFileName(f) = f})

\* C16: the cleanup of download_result deletes only files extracted in
\* that run: after a successful download the artifact is in the output
\* directory, captions/ holds what it held, and every file that was in the
\* directory before the call and is neither a caption nor a weights file
\* (the only step that can touch such a file is the cleanup) is still
\* there, .env and config.yaml among them.
C16_CleanupOnlyExtracted ==
    dlResult = "path" =>
        /\ model_file_path \in fsRoot
        /\ fsBefore.captions \subseteq fsCaptions
        /\ \A f \in fsBefore.root :
              (~EndsWith(f, ExtTxt) /\ ~EndsWith(f, ExtSafetensors)) => f \in fsRoot

(***************************************************************************)
(* Properties of the configuration that is submitted (checked under        *)
(* SpecConfig).                                                            *)
(***************************************************************************)
ClaimResolutionOk(v) ==
    /\ Len(Split(v, ",")) = 2
    /\ \A i \in 1..2 :
          /\ IsIntText(Split(v, ",")[i])
          /\ ParseInt(Split(v, ",")[i]) \in 512..2048

ClaimDestinationOk(v) ==
    \E i \in 2..(Len(v) - 1) :
        /\ v[i] = "/"
        /\ \A j \in 1..Len(v) : j # i => v[j] # "/"
        /\ \E j \in 1..(i - 1) : v[j] # " "
        /\ \E j \in (i + 1)..Len(v) : v[j] # " "

\* C17: the TrainingConfig that client.trainings.create is called with
\* satisfies every declared bound, whichever source supplied each value:
\* steps 1000..2000, LoRA rank 4..128, batch size 1..8, optimizer prodigy
\* or adamw8bit, learning rate in the range of that optimizer (prodigy
\* 0.1..10, adamw8bit 0.0001..0.01), resolution 'w,h' within 512..2048,
\* both wandb intervals >= 10, caption dropout 0..1, destination owner/name.
C17_SubmittedConfigWithinBounds ==
    Count("create") > 0 =>
        /\ training_config.steps \in 1000..2000
        /\ training_config.lora_rank \in 4..128
        /\ training_config.batch_size \in 1..8
        /\ training_config.optimizer \in {"prodigy", "adamw8bit"}
        /\ training_config.optimizer = "prodigy" =>
              training_config.learning_rate \in 1000..100000
        /\ training_config.optimizer = "adamw8bit" =>
              training_config.learning_rate \in 1..100
        /\ ClaimResolutionOk(training_config.resolution)
        /\ training_config.wandb_save_interval >= 10
        /\ training_config.wandb_sample_interval >= 10
        /\ training_config.caption_dropout_rate \in 0..100
        /\ ClaimDestinationOk(training_config.destination)

(***************************************************************************)
(* Order of the validations of train (checked under Spec).                 *)
(***************************************************************************)
\* C18: when a command is ended by the rejection of the API token (absent,
\* empty, or without the prefix r8_) or of the training configuration, no
\* network call has been made before: no HEAD or GET of the dataset and no
\* request to the job service.
C18_ConfigErrorBeforeNetwork ==
    handler \in {"init", "config"} => net = <<>>

\* C19: in train the GET of the dataset archive is issued only right after
\* the HEAD probe of validate_dataset_url and only when the probe passed;
\* when the probe fails the command exits and no GET is ever issued.
C19_ProbeBeforeDownload ==
    /\ \A i \in 1..Len(net) :
          net[i] = "GET_ZIP" => (i = 2 /\ net[1] = "HEAD" /\ urlResult = "True")
    /\ urlResult = "ValueError" =>
          /\ net = <<"HEAD">>
          /\ pc = "done"
          /\ exitCode = 1
          /\ structResult = "none"

C19_Witness ==
    /\ cmd = "train"
    /\ urlResult = "ValueError"
    /\ net = <<"HEAD">>
    /\ dataset_url = UrlZip
    /\ pc = "done"

(***************************************************************************)
(* Errors during train --wait (checked under Spec).                        *)
(***************************************************************************)
\* C20: in train, after the job was created, a failed status fetch of
\* monitor_training ends the command normally with the status "error", and
\* a failure inside download_result is caught by train and reported (an
\* exception by its except clause, a None result as a failed download);
\* neither reaches the handler of unexpected errors.  A failed create call
\* ends the command at once: nothing is monitored and nothing downloaded.
C20_WaitErrorsCaught ==
    (cmd = "train" /\ Count("create") > 0 /\ ~interrupted) =>
        /\ handler # "handle_errors"
        /\ (pc = "done" /\ final_status = "error") =>
              (exitCode = 0 /\ handler = "none" /\ Count("get_dl") = 0)
        /\ (pc = "done" /\ dlResult = "raised") => (exitCode = 1 /\ handler = "submit")
        /\ (pc = "done" /\ dlResult = "None") =>
              (exitCode = 0 /\ handler = "download_failed")
        /\ jobStatus = "absent" =>
              /\ pc = "done"
              /\ exitCode = 1
              /\ handler = "submit"
              /\ net[Len(net)] = "create"
              /\ final_status = "none"
              /\ dlResult = "none"

C20_Witness ==
    /\ cmd = "train"
    /\ ~interrupted
    /\ final_status = "succeeded"
    /\ dlResult = "raised"
    /\ Count("GET_TAR") = 1
    /\ pc = "done"
    /\ exitCode = 1

(***************************************************************************)
(* Scenarios and further properties of monitor_training (checked under     *)
(* Spec).                                                                  *)
(***************************************************************************)
ScenarioStatuses == <<"starting", "processing", "processing", "succeeded">>

\* C21 as claimed: with the status fetches returning starting, processing,
\* processing, succeeded in that order, monitor_training has returned
\* 'succeeded' after 3 polls (status fetches).
C21_Original ==
    (polls = ScenarioStatuses /\ final_status = "succeeded") => Count("get_mon") = 3

\* C21, amended: with the status fetches returning starting, processing,
\* processing, succeeded in that order, monitor_training returns
\* 'succeeded' right after the fourth fetch: it has made 4 fetches and 3
\* sleeps, and it makes no further fetch or sleep.
C21_ScenarioFourFetches ==
    polls = ScenarioStatuses =>
        /\ Count("get_mon") = 4
        /\ Count("sleep") = 3
        /\ \A i \in 1..Len(net) :
              net[i] = "sleep" => \E j \in (i + 1)..Len(net) : net[j] = "get_mon"
        /\ ~interrupted => (pc = "mon_report" \/ final_status = "succeeded")

C21_Witness ==
    /\ polls = ScenarioStatuses
    /\ final_status = "succeeded"
    /\ ~interrupted
    /\ pc = "done"

(***************************************************************************)
(* Scenarios and further properties of validate_dataset_structure          *)
(* (checked under SpecDataset).                                            *)
(***************************************************************************)
\* C22: for an archive containing exactly a.jpg and b.txt the validation
\* fails with the unpaired images ['a'] and the warning about the unpaired
\* caption is emitted as well.
C22_UnpairedCaptionWarned ==
    (Inspected /\ archive = {A_jpg, B_txt}) =>
        /\ structResult = "ValueError"
        /\ report.kind = "unpaired_images"
        /\ report.names = {<<"a">>}
        /\ "unpaired_captions" \in out

(***************************************************************************)
(* The type of the errors of the dataset validation (checked under Spec).  *)
(***************************************************************************)
\* C23: every failure of validate_dataset_structure in train is raised as
\* ValueError, whatever the text of the underlying error, so the
\* dataset-validation handler of train catches it and the command exits
\* before the configuration is built and before anything is submitted.
C23_StructFailureIsValueError ==
    (cmd = "train" /\ structResult \notin {"none", "True", "KeyboardInterrupt"}) =>
        /\ structResult = "ValueError"
        /\ pc = "done"
        /\ exitCode = 1
        /\ handler = "dataset"
        /\ configResult = "none"
        /\ Count("create") = 0

(***************************************************************************)
(* Properties of create_config and of the TrainingConfig it builds         *)
(* (checked under SpecConfig).                                             *)
(***************************************************************************)
\* the value the claim expects for a field: that of the first of the CLI
\* arguments (when not None), the file, the preset and the field defaults
\* that has the field
ClaimExpected(field) ==
    IF field \in DOMAIN inv.cli_args /\ inv.cli_args[field] # {}
    THEN CHOOSE v \in inv.cli_args[field] : TRUE
    ELSE IF field \in DOMAIN inv.file_data THEN inv.file_data[field]
    ELSE IF field \in DOMAIN PRESETS[inv.preset] THEN PRESETS[inv.preset][field]
    ELSE FieldDefaults[field]

ClaimTriggerGiven == CHOOSE v \in inv.cli_args.trigger_word : TRUE

\* C25: the construction of TrainingConfig rejects every trigger word that
\* is, whatever its case, one of the common words or that has fewer than 2
\* characters after trimming; the trigger word of a configuration that was
\* built, and the one sent to the remote service, is never a common word.
C25_TriggerWordNotCommon ==
    /\ ( /\ configResult # "none"
         /\ \/ Lower(ClaimTriggerGiven) \in common_words
            \/ Len(Strip(ClaimTriggerGiven)) < 2 ) => configResult = "raised"
    /\ configResult = "built" =>
          /\ Lower(training_config.trigger_word) \notin common_words
          /\ Len(training_config.trigger_word) >= 2
    /\ jobStatus # "absent" => Lower(jobTrigger) \notin common_words

(***************************************************************************)
(* Where an interrupt is acted upon (checked under Spec).                  *)
(***************************************************************************)
\* C26: an interrupt is acted upon only at the boundary of the poll loop,
\* between a status check and the sleep that follows: inside
\* monitor_training at no other point, never while a status fetch is in
\* flight, and never while the artifact is being transferred.
C26_InterruptOnlyAtBoundary ==
    [][ (~interrupted /\ interrupted') =>
            /\ pc \in MonitorPcs => pc = "mon_update"
            /\ pc # "mon_fetching"
            /\ ~(pc = "dl_stream" /\ tmpTar')
      ]_vars

(***************************************************************************)
(* Hidden entries of the dataset archive (checked under SpecDataset).      *)
(***************************************************************************)
\* a directory entry, a file whose own name starts with '.', or an entry
\* under the __MACOSX folder
ClaimHiddenEntry(f) ==
    \/ f[Len(f)] = "/"
    \/ ClaimFileName(f)[1] = "."
    \/ StartsWith(f, MacOsxPrefix \o <<"/">>)
    \/ Contains(f, <<"/">> \o MacOsxPrefix \o <<"/">>)

\* C27: directory entries and hidden or system entries, wherever they sit
\* in the archive, influence neither the pairing result nor the error
\* raised: the outcome of the inspection is an outcome of inspecting the
\* archive without them.
C27_HiddenEntriesIgnored ==
    Inspected =>
        report \in InspectArchive({f \in archive : ~ClaimHiddenEntry(f)})

(***************************************************************************)
(* The weights files of the output directory (checked under Spec).         *)
(***************************************************************************)
\* C28: after a successful download_result the root of the output
\* directory holds exactly one weights (.safetensors) file, the one named
\* {model}_{trigger}.safetensors, and the returned path is that file's;
\* also when the directory held a weights file before the call or the
\* archive holds several.
C28_ExactlyOneWeightsFile ==
    dlResult = "path" =>
        /\ {f \in fsRoot : EndsWith(f, ExtSafetensors)} = {ClaimArtifact}
        /\ model_file_path = ClaimArtifact

(***************************************************************************)
(* cancel_training while the remote service changes the job (checked       *)
(* under Spec).                                                            *)
(***************************************************************************)
\* this step sends the cancel request
CancelSentNow == Count("cancel")' = Count("cancel") + 1

\* C29 as claimed: the cancel request is never sent to a job that is in a
\* terminal status at the moment the request is sent, and a True result
\* implies the job was still starting or processing when the request took
\* effect.
C29_Original ==
    [][ /\ CancelSentNow => jobStatus \notin ServiceTerminal
        /\ (cancelResult # "True" /\ cancelResult' = "True") =>
              jobStatus \in {"starting", "processing"}
      ]_vars

\* C29, amended: the cancel request is sent only after the status fetch of
\* the same call returned starting or processing, and True is returned only
\* by the step that sent it; the job may have changed since the fetch: a
\* job that is terminal when the request arrives is left as it is, one that
\* is not is canceled unless the request fails.
C29_CancelAfterCheckedFetch ==
    [][ /\ CancelSentNow =>
              /\ cancelFetched \in {"starting", "processing"}
              /\ net[Len(net)] = "get_cancel"
              /\ jobStatus \in ServiceTerminal => jobStatus' = jobStatus
              /\ (jobStatus \notin ServiceTerminal /\ cancelResult' = "True") =>
                    jobStatus' = "canceled"
        /\ (cancelResult # "True" /\ cancelResult' = "True") => CancelSentNow
      ]_vars

C29_Witness ==
    /\ cancelFetched = "processing"
    /\ Count("cancel") = 1
    /\ cancelResult = "True"
    /\ jobStatus = "succeeded"
    /\ pc = "done"
    /\ exitCode = 0

(***************************************************************************)
(* The results and the rhythm of monitor_training (checked under Spec).    *)
(***************************************************************************)
\* the status fetches and sleeps of monitor_training, in order
ClaimMonitorOps == SelectSeq(net, LAMBDA x : x \in {"get_mon", "sleep"})

ClaimNonTerminal(status) == status \notin {"succeeded", "failed", "canceled"}

\* C30: monitor_training returns only succeeded, failed, canceled,
\* monitoring_stopped or error, and one of the first three only when it is
\* the status fetched last; the first fetch precedes every sleep; a fetched
\* status that is none of the three (starting, processing, unrecognised)
\* is followed by exactly one sleep and then the next fetch, unless an
\* interrupt or a failed fetch ends the function; no sleep follows a
\* fetched succeeded, failed or canceled.
C30_MonitorResultsAndRhythm ==
    /\ final_status \in {"none", "succeeded", "failed", "canceled",
                         "monitoring_stopped", "error"}
    /\ final_status \in {"succeeded", "failed", "canceled"} =>
          (polls # <<>> /\ polls[Len(polls)] = final_status)
    /\ \A i \in 1..Len(ClaimMonitorOps) :
          ClaimMonitorOps[i] = (IF i % 2 = 1 THEN "get_mon" ELSE "sleep")
    /\ \A k \in 1..Len(polls) :
          IF ClaimNonTerminal(polls[k])
          THEN \/ Count("sleep") >= k
               \/ (k = Len(polls) /\ pc = "mon_update")
               \/ (k = Len(polls) /\ final_status = "monitoring_stopped")
          ELSE /\ k = Len(polls)
               /\ Count("sleep") = k - 1
    /\ \A k \in 1..(Len(polls) - 1) : Count("get_mon") > k
    /\ (polls # <<>> /\ ClaimNonTerminal(polls[Len(polls)])
            /\ pc \notin MonitorPcs) =>
          final_status \in {"monitoring_stopped", "error"}

C30_Witness ==
    /\ Len(polls) = 3
    /\ polls[1] = "unknown"
    /\ polls[2] = "starting"
    /\ polls[3] = "canceled"
    /\ final_status = "canceled"
    /\ Count("sleep") = 2
    /\ pc = "done"
    /\ exitCode = 1

====
